---- MODULE Spec2Model ----
(***************************************************************************)
(* Deterministic lockstep over UDP: the relay (crates/relay/src/main.rs),  *)
(* the net_pong client's connection state machine and tick gate            *)
(* (crates/net_pong/src/main.rs) and the datagram network between them.    *)
(*                                                                         *)
(* The specifications share the variables:                                 *)
(*   Spec        the composed system: honest clients, the relay, and a     *)
(*               network that may lose (never deliver), duplicate          *)
(*               (deliver again) and reorder (deliver in any order) every  *)
(*               datagram;                                                 *)
(*   RelaySpec   the relay alone, handling any datagram from any address;  *)
(*   ClientSpec  one client alone, handling any datagram;                  *)
(*   AloneSpec   either of the two alone, handed raw bytes as well;        *)
(*   CodecSpec   serialize and deserialize (crates/relay/src/lib.rs) on a  *)
(*               message;                                                  *)
(*   LossSpec    a session in play over a network that also loses          *)
(*               transmissions outright;                                   *)
(*   WrapSpec    a session in play whose ticks reach u32::MAX.             *)
(***************************************************************************)
EXTENDS Integers, Sequences, FiniteSets

\* ------------------------------------------------------------------ bounds

\* Ticks the environment offers are 0 .. MaxTick-1, and a client sends the
\* Inputs of MaxTick ticks: no counter advances more than MaxTick times.
MaxTick == 2

\* Transmissions the network may lose outright in the specification that
\* lets it.
MaxLost == 1

\* ----------------------------------------------------------- program constants

MAX_PLAYERS == 2
PLAYER_COUNT == 2

\* ------------------------------------------------------------------ values

\* Option<T>: None is the empty sequence, Some(x) the one-element sequence.
None == << >>
Some(x) == << x >>

\* Socket addresses of the senders: one more than the relay has slots.
Addrs == 1 .. 3
Slots == 0 .. (MAX_PLAYERS - 1)

\* f32 values the input source yields: (up - down) clamped to [-1, 1].
Movements == {-1, 1}

\* postcard's encoding of an f32: its IEEE-754 bits, little endian.
serialize_f32(m) ==
    CASE m = 0  -> << 0, 0, 0, 0 >>
      [] m = 1  -> << 0, 0, 128, 63 >>
      [] m = -1 -> << 0, 0, 128, 191 >>

\* postcard::from_bytes::<f32>: the first four bytes, an error when fewer.
deserialize_f32(b) ==
    IF Len(b) < 4 THEN None
    ELSE LET w == SubSeq(b, 1, 4)
         IN  CASE w = << 0, 0, 0, 0 >>     -> Some(0)
               [] w = << 0, 0, 128, 63 >>  -> Some(1)
               [] w = << 0, 0, 128, 191 >> -> Some(-1)
               [] OTHER                    -> Some(2)  \* some other f32

\* A payload no f32 decodes from.
ShortPayload == << 7 >>

\* Datagrams, as deserialize sees them: a message, or a buffer it rejects.
Malformed == [type |-> "Malformed"]
Hello == [type |-> "Hello"]
Input(t, p) == [type |-> "Input", tick |-> t, payload |-> p]
Welcome(s) == [type |-> "Welcome", player_slot |-> s]
GameStart == [type |-> "GameStart"]
TickInputs(t, ins) == [type |-> "TickInputs", tick |-> t, inputs |-> ins]

OfferedTicks == 0 .. (MaxTick - 1)

\* Every datagram an arbitrary sender may put on the relay's socket. The relay
\* never looks into a payload: two different ones, one of them no f32, are enough.
OfferedPayloads == { serialize_f32(1), ShortPayload }
ClientDatagrams ==
    { Malformed, Hello } \cup { Input(t, p) : t \in OfferedTicks, p \in OfferedPayloads }

\* Tick is a u32. A tick is written as the two's-complement reading of its 32
\* bits: 0 .. 2^31 - 1 are themselves and the upper half are the negative
\* numbers, so that u32::MAX (all bits set) is -1.
U32_MAX == -1

\* A counter that moves two ticks on.
NextTick_by_two(t) == t + 2

\* `+= 1` on a Tick in a build without overflow checks: wrapping_add(1), which
\* on the two's-complement reading is + 1 (from u32::MAX to 0 as well). No tick
\* of the model comes near the other seam, 2^31.
NextTick(t) == t + 1

\* ------------------------------------------------------------------ wire format

\* postcard, as serialize and deserialize call it: a u32 and a length are
\* varints (seven bits a byte, low bits first, the top bit set on every byte
\* but the last), a u8 is one byte, an enum is the varint of its variant's index
\* followed by the variant's fields in order, a Vec is the varint of its length
\* followed by its elements.

\* The logical shift right by seven bits of a u32 in the two's-complement reading.
Shr7(u) == IF u >= 0 THEN u \div 128 ELSE (u \div 128) + 33554432

\* A varint that keeps the low seven bits alone.
varint_low7(u) == << u % 128 >>

RECURSIVE varint(_)
varint(u) ==
    IF 0 <= u /\ u < 128 THEN << u >>
    ELSE << 128 + (u % 128) >> \o varint(Shr7(u))

\* Vec<u8>
ser_bytes(b) == varint(Len(b)) \o b

\* The elements of a Vec<Vec<u8>>, one after the other.
RECURSIVE ser_elems(_)
ser_elems(bs) == IF bs = << >> THEN << >> ELSE ser_bytes(Head(bs)) \o ser_elems(Tail(bs))

\* postcard::to_allocvec on a ClientMessage or a RelayMessage: a Result, here
\* an Option. The derived Serialize of these types raises no error, and the
\* output Vec grows as needed.
to_allocvec(msg) ==
    Some(CASE msg.type = "Hello"      -> << 0 >>
           [] msg.type = "Input"      -> << 1 >> \o varint(msg.tick) \o ser_bytes(msg.payload)
           [] msg.type = "Welcome"    -> << 0, msg.player_slot >>
           [] msg.type = "GameStart"  -> << 1 >>
           [] msg.type = "TickInputs" ->
                << 2 >> \o varint(msg.tick) \o varint(Len(msg.inputs)) \o ser_elems(msg.inputs))

\* serialize: .expect("serialization should not fail") on the Result.
serialize(msg) == to_allocvec(msg)[1]

\* 2^(7 i), the weight of the i-th byte of a varint.
Pow7(i) ==
    CASE i = 0 -> 1 [] i = 1 -> 128 [] i = 2 -> 16384 [] i = 3 -> 2097152 [] i = 4 -> 268435456

\* `carry << 28` on a u32, in the two's-complement reading; carry is below 16.
TopNibble(carry) == (IF carry >= 8 THEN carry - 16 ELSE carry) * Pow7(4)

\* A decoder takes a value from the front of a buffer: None on an error, or
\* Some of the value and the rest of the buffer.
Taken(r) == r[1][1]
Rest(r) == r[1][2]

\* try_take_varint_u32: at most five bytes, the fifth at most 0x0F; an error on
\* the end of the buffer. i counts the bytes taken, out is their sum so far.
RECURSIVE take_varint_u32(_, _, _)
take_varint_u32(b, i, out) ==
    IF i = 5 \/ b = << >> THEN None
    ELSE LET val == Head(b)
             carry == val % 128
         IN  IF val >= 128 THEN
                 IF i = 4 THEN None
                 ELSE take_varint_u32(Tail(b), i + 1, out + carry * Pow7(i))
             ELSE IF i = 4 THEN
                 IF val > 15 THEN None ELSE Some(<< out + TopNibble(carry), Tail(b) >>)
             ELSE Some(<< out + carry * Pow7(i), Tail(b) >>)

\* A length no buffer has.
TooLong == 1073741824

\* try_take_varint_usize, for the length of a Vec: as above with ten bytes; a
\* length with a bit set in its fifth byte or beyond is longer than any
\* buffer, and is kept as TooLong.
RECURSIVE take_varint_usize(_, _, _)
take_varint_usize(b, i, out) ==
    IF i = 10 \/ b = << >> THEN None
    ELSE LET val == Head(b)
             carry == val % 128
             sum == IF carry = 0 THEN out
                    ELSE IF i >= 4 \/ out = TooLong THEN TooLong
                    ELSE out + carry * Pow7(i)
         IN  IF val >= 128 THEN take_varint_usize(Tail(b), i + 1, sum)
             ELSE IF i = 9 /\ val > 1 THEN None
             ELSE Some(<< sum, Tail(b) >>)

\* u8
take_u8(b) == IF b = << >> THEN None ELSE Some(<< Head(b), Tail(b) >>)

\* Vec<u8>: the length, then that many bytes; an error when fewer remain.
take_bytes(b) ==
    LET n == take_varint_usize(b, 0, 0)
    IN  IF n = None THEN None
        ELSE IF Taken(n) > Len(Rest(n)) THEN None
        ELSE Some(<< SubSeq(Rest(n), 1, Taken(n)),
                     SubSeq(Rest(n), Taken(n) + 1, Len(Rest(n))) >>)

\* n elements of a Vec<Vec<u8>>, after the elements acc.
RECURSIVE take_elems(_, _, _)
take_elems(b, n, acc) ==
    IF n = 0 THEN Some(<< acc, b >>)
    ELSE LET e == take_bytes(b)
         IN  IF e = None THEN None ELSE take_elems(Rest(e), n - 1, Append(acc, Taken(e)))

\* Vec<Vec<u8>>: every element takes a byte at least.
take_vec(b) ==
    LET n == take_varint_usize(b, 0, 0)
    IN  IF n = None THEN None
        ELSE IF Taken(n) > Len(Rest(n)) THEN None
        ELSE take_elems(Rest(n), Taken(n), << >>)

\* postcard::from_bytes::<T> for T one of "ClientMessage", "RelayMessage": the
\* variant's index, then its fields; what is left of the buffer is ignored.
from_bytes(T, bytes) ==
    LET v == take_varint_u32(bytes, 0, 0)
    IN  IF v = None THEN None
        ELSE IF T = "ClientMessage" THEN
            CASE Taken(v) = 0 -> Some(Hello)
              [] Taken(v) = 1 ->
                   LET t == take_varint_u32(Rest(v), 0, 0)
                   IN  IF t = None THEN None
                       ELSE LET p == take_bytes(Rest(t))
                            IN  IF p = None THEN None
                                ELSE Some(Input(Taken(t), Taken(p)))
              [] OTHER -> None
        ELSE
            CASE Taken(v) = 0 ->
                   LET s == take_u8(Rest(v))
                   IN  IF s = None THEN None ELSE Some(Welcome(Taken(s)))
              [] Taken(v) = 1 -> Some(GameStart)
              [] Taken(v) = 2 ->
                   LET t == take_varint_u32(Rest(v), 0, 0)
                   IN  IF t = None THEN None
                       ELSE LET ins == take_vec(Rest(t))
                            IN  IF ins = None THEN None
                                ELSE Some(TickInputs(Taken(t), Taken(ins)))
              [] OTHER -> None

\* deserialize: .ok() on the Result.
deserialize(T, bytes) == from_bytes(T, bytes)

\* A buffer deserialize rejects, as the receive loop sees it.
Undecodable(bytes) == [type |-> "Malformed", bytes |-> bytes]

\* `let Some(msg) = deserialize::<T>(&buf[..len]) else { continue }`: the
\* message the receive loop goes on with, or the buffer it skips.
Datagram(T, bytes) ==
    LET r == deserialize(T, bytes) IN IF r = None THEN Undecodable(bytes) ELSE r[1]

\* Buffers of arbitrary bytes put on a socket: the empty one; the index of no
\* variant of either enum; an Input cut inside the varint of its tick, which
\* read as a RelayMessage is a GameStart with a byte left over; a Hello with a
\* byte left over, which read as a RelayMessage is Welcome{1}; and the index 0
\* written in two bytes, a Hello, which read as a RelayMessage is a Welcome
\* cut before its slot.
Buffers == { << >>, << 3 >>, << 1, 128 >>, << 0, 1 >>, << 128, 0 >> }

\* The enum a message belongs to.
TypeOf(msg) == IF msg.type \in { "Hello", "Input" } THEN "ClientMessage" ELSE "RelayMessage"

\* ------------------------------------------------------------------ state

VARIABLES
    \* RelayState
    players, game_started, current_tick, tick_inputs,
    \* the client's resources, one of each per client address
    conn, local_slot, sim_tick, tick_ready, need_to_send_input, movement,
    \* the processes that have panicked: clients' addresses, and Relay
    panicked,
    \* datagrams the network carries: to the relay (with the sender's address),
    \* to the clients; the transmissions it has lost outright, and how many more
    \* it may lose that way
    toRelay, toClient, lost, loss_left,
    \* history: the last step taken; the (slot, tick) pairs of Inputs the relay
    \* received from a registered address for its current tick; each client's
    \* send / ready / step events in order; the input array each of its
    \* simulation steps read; the addresses in the order of their first Hello
    \* at the relay; per slot, the tick and payload of the last Input the relay
    \* received from the slot's address for its current tick; where the history
    \* of deliveries is kept, the transmissions delivered at least once since
    \* they were last sent
    evt, accepted, log, applied, hellos, latest, delivered,
    \* a message on its way through serialize and deserialize: the value, the
    \* bytes serialize made of it, the Option deserialize made of the bytes
    codec

relayVars == << players, game_started, current_tick, tick_inputs >>
clientVars == << conn, local_slot, sim_tick, tick_ready, need_to_send_input, movement,
                 panicked >>
vars == << players, game_started, current_tick, tick_inputs,
           conn, local_slot, sim_tick, tick_ready, need_to_send_input, movement,
           panicked, toRelay, toClient, lost, loss_left,
           evt, accepted, log, applied, hellos, latest, delivered, codec >>

Relay == 0

\* The step recorded in evt: who took it (Relay or a client's address), its
\* kind ("recv", "hello", "input", "step"), the datagram it handled or sent
\* with the sender's address, and the datagrams it sent, in order.
NoDatagram == [type |-> "NoDatagram"]

Event(who, kind, src, buf, out) ==
    [who |-> who, kind |-> kind, src |-> src, buf |-> buf, out |-> out]

Dgram(dst, buf) == [dst |-> dst, buf |-> buf]

\* No message is on its way through the helpers.
NoCodec == [stage |-> "idle"]

Range(s) == { s[i] : i \in 1 .. Len(s) }

\* ------------------------------------------------------------------ relay

\* position(): the first index that satisfies the predicate.
Position(S) == IF S = {} THEN None ELSE Some(CHOOSE i \in S : \A j \in S : i <= j)

\* unwrap_or(0) on the lookup: an address that holds no slot is taken for slot 0's.
find_player_or_first(addr) ==
    LET S == { s \in Slots : players[s] = Some(addr) }
    IN  IF S = {} THEN Some(0) ELSE Some(CHOOSE i \in S : \A j \in S : i <= j)

\* A lookup that matches no stored address.
find_player_never(addr) == None

find_player(addr) == Position({ s \in Slots : players[s] = Some(addr) })

\* rposition() in the place of position(): the last free slot.
next_empty_slot_last ==
    LET S == { s \in Slots : players[s] = None }
    IN  IF S = {} THEN None ELSE Some(CHOOSE i \in S : \A j \in S : i >= j)

\* unwrap_or(0) on the lookup: slot 0 is handed out again when none is free.
next_empty_slot_or_first ==
    LET S == { s \in Slots : players[s] = None }
    IN  IF S = {} THEN Some(0) ELSE Some(CHOOSE i \in S : \A j \in S : i <= j)

next_empty_slot == Position({ s \in Slots : players[s] = None })

\* any() in the place of all().
any_slot_filled(p) == \E s \in Slots : p[s] # None

all_slots_filled(p) == \A s \in Slots : p[s] # None

\* A relay that never finds its buffer complete.
all_inputs_received_never(ti) == FALSE

all_inputs_received(ti) == \A s \in Slots : ti[s] # None

\* state.players.iter().flatten(): the registered addresses in slot order.
RECURSIVE Flatten(_, _)
Flatten(p, s) ==
    IF s >= MAX_PLAYERS THEN << >>
    ELSE (IF p[s] = None THEN << >> ELSE << p[s][1] >>) \o Flatten(p, s + 1)

Broadcast(p, buf) ==
    LET a == Flatten(p, 0) IN [ i \in 1 .. Len(a) |-> Dgram(a[i], buf) ]

\* A transmission: the datagram buf on its way from src to dst.
Transmission(src, dst, buf) == [src |-> src, dst |-> dst, buf |-> buf]

\* No history of deliveries is kept.
Untracked == [on |-> FALSE, got |-> {}]

\* The history of deliveries after a step that received the transmissions in
\* got and sent the ones in sent: a transmission sent anew is not delivered yet.
Noted(got, sent) ==
    IF delivered.on
    THEN [on |-> TRUE, got |-> (delivered.got \cup got) \ sent]
    ELSE delivered

\* UDP: of the datagrams one step sends, the network may lose some outright
\* (as many as it still may); L is the set of positions in out it loses.
Losses(out) ==
    { L \in SUBSET (1 .. Len(out)) : Cardinality(L) <= loss_left }

\* The relay's socket.send_to calls of one iteration: the datagrams of out
\* that are not lost become deliverable to their addressees.
RelaySent(src, buf, out) ==
    /\ evt' = Event(Relay, "recv", src, buf, out)
    /\ \E L \in Losses(out) :
          /\ toClient' = toClient \cup { out[i] : i \in (1 .. Len(out)) \ L }
          /\ lost' = lost \cup { Transmission(Relay, out[i].dst, out[i].buf) : i \in L }
          /\ loss_left' = loss_left - Cardinality(L)
    /\ delivered' = Noted({ Transmission(src, Relay, buf) },
                          { Transmission(Relay, out[i].dst, out[i].buf) : i \in 1 .. Len(out) })
    /\ UNCHANGED << conn, local_slot, sim_tick, tick_ready, need_to_send_input, movement,
                    toRelay, log, applied, codec >>

\* The relay's step leaves its answer in evt and on the network, and the relay
\* goes on to the next iteration.
RelayDone(src, buf, out) ==
    /\ RelaySent(src, buf, out)
    /\ panicked' = panicked

\* A relay that starts the game again for everybody when a player says Hello again.
known_reply_broadcast(src, slot) ==
    << Dgram(src, Welcome(slot)) >>
    \o (IF game_started THEN Broadcast(players, GameStart) ELSE << >>)

\* A relay that welcomes a player who says Hello again to slot 0.
known_reply_slot_zero(src, slot) ==
    << Dgram(src, Welcome(0)) >>
    \o (IF game_started THEN << Dgram(src, GameStart) >> ELSE << >>)

\* Already connected: re-send welcome to src, and GameStart if state.game_started.
known_reply(src, slot) ==
    << Dgram(src, Welcome(slot)) >>
    \o (IF game_started THEN << Dgram(src, GameStart) >> ELSE << >>)

\* A relay that answers the Hello it rejects.
full_reply_welcome(src) == << Dgram(src, Welcome(0)) >>

\* rejected, game is full: a line on stderr and `continue`; nothing is sent.
full_reply(src) == << >>

\* ClientMessage::Hello
HandleHello(src) ==
    LET known == find_player(src)
        free == next_empty_slot
    IN  IF known # None
        THEN \* Already connected: re-send welcome (and the start).
             /\ UNCHANGED relayVars
             /\ RelayDone(src, Hello, known_reply(src, known[1]))
        ELSE IF free = None
        THEN \* rejected, game is full
             /\ UNCHANGED relayVars
             /\ RelayDone(src, Hello, full_reply(src))
        ELSE LET slot == free[1]
                 p == [players EXCEPT ![slot] = Some(src)]
                 start == all_slots_filled(p) /\ ~game_started
             IN  /\ players' = p
                 /\ game_started' = (game_started \/ start)
                 /\ UNCHANGED << current_tick, tick_inputs >>
                 /\ RelayDone(src, Hello,
                        << Dgram(src, Welcome(slot)) >>
                        \o (IF start THEN Broadcast(p, GameStart) ELSE << >>))

\* A relay that drops only the Inputs of later ticks.
tick_mismatch_future_only(tick) == tick > current_tick

\* A relay that drops only the Inputs of earlier ticks.
tick_mismatch_stale_only(tick) == tick < current_tick

\* if tick != state.current_tick
tick_mismatch(tick) == tick # current_tick

\* A buffer that keeps the first payload of a slot and ignores the later ones.
record_input_keep_first(slot, payload) ==
    IF tick_inputs[slot] # None THEN tick_inputs
    ELSE [tick_inputs EXCEPT ![slot] = Some(payload)]

\* state.tick_inputs[slot] = Some(payload)
record_input(slot, payload) == [tick_inputs EXCEPT ![slot] = Some(payload)]

\* Advance to next tick. At u32::MAX the addition overflows: a build with
\* overflow checks panics on it, a build without wraps to 0.
advance_tick ==
    \/ /\ current_tick' = NextTick(current_tick)
       /\ tick_inputs' = [ s \in Slots |-> None ]
       /\ panicked' = panicked
    \/ /\ current_tick = U32_MAX
       /\ panicked' = panicked \cup { Relay }
       /\ UNCHANGED << current_tick, tick_inputs >>

\* A relay that sends the last slot's payload a second time.
collect_inputs_with_spare(ti) ==
    [ i \in 1 .. (MAX_PLAYERS + 1) |->
        IF i <= MAX_PLAYERS THEN ti[i - 1][1] ELSE ti[MAX_PLAYERS - 1][1] ]

\* state.tick_inputs.iter().map(|input| input.clone().unwrap()).collect()
collect_inputs(ti) == [ i \in 1 .. MAX_PLAYERS |-> ti[i - 1][1] ]

\* ClientMessage::Input { tick, payload }
HandleInput(src, tick, payload) ==
    LET known == find_player(src)
        buf == Input(tick, payload)
    IN  IF known = None
        THEN \* input from unknown client
             /\ UNCHANGED relayVars
             /\ RelayDone(src, buf, << >>)
        ELSE IF tick_mismatch(tick)
        THEN \* Ignore inputs for wrong tick (stale or future).
             /\ UNCHANGED relayVars
             /\ RelayDone(src, buf, << >>)
        ELSE LET slot == known[1]
                 ti == record_input(slot, payload)
             IN  /\ UNCHANGED << players, game_started >>
                 /\ IF all_inputs_received(ti)
                    THEN LET inputs == collect_inputs(ti)
                         IN  /\ advance_tick
                             /\ RelaySent(src, buf,
                                    Broadcast(players, TickInputs(current_tick, inputs)))
                    ELSE /\ tick_inputs' = ti
                         /\ UNCHANGED current_tick
                         /\ RelayDone(src, buf, << >>)

\* History of what the relay was handed: an Input for the current tick from the
\* address of slot s counts as slot s's submission for that tick and is the
\* latest one of that slot; the first Hello of an address puts it on the list
\* of arrivals.
Observe(src, buf) ==
    /\ accepted' = accepted \cup
          IF buf.type = "Input" /\ buf.tick = current_tick
          THEN { << s, buf.tick >> : s \in { t \in Slots : players[t] = Some(src) } }
          ELSE {}
    /\ hellos' = IF buf.type = "Hello" /\ src \notin Range(hellos)
                 THEN Append(hellos, src) ELSE hellos
    /\ latest' = [ s \in Slots |->
                      IF buf.type = "Input" /\ buf.tick = current_tick /\ players[s] = Some(src)
                      THEN Some([tick |-> buf.tick, payload |-> buf.payload])
                      ELSE latest[s] ]

\* A relay that answers a buffer it cannot decode.
bad_message_reply_welcome(src) == << Dgram(src, Welcome(0)) >>

\* bad message: a line on stderr and `continue`; nothing is sent.
bad_message_reply(src) == << >>

\* One iteration of the receive loop on the datagram buf from src.
RelayHandle(src, buf) ==
    /\ Relay \notin panicked
    /\ Observe(src, buf)
    /\ CASE buf.type = "Hello" -> HandleHello(src)
         [] buf.type = "Input" -> HandleInput(src, buf.tick, buf.payload)
         [] OTHER -> \* bad message: deserialize returned None
                     /\ UNCHANGED relayVars
                     /\ RelayDone(src, buf, bad_message_reply(src))

\* The relay alone: any datagram from any address. (A recv_from error only
\* logs and continues: it is no step.)
RelayRecvAny == \E src \in Addrs, buf \in ClientDatagrams : RelayHandle(src, buf)

\* ------------------------------------------------------------------ client

\* Every datagram an arbitrary sender may put on a client's socket.
\* Input arrays of one, two and three payloads; with and without a payload no
\* f32 decodes from.
OfferedInputs ==
    { << serialize_f32(1), serialize_f32(1) >>,
      << ShortPayload, serialize_f32(1) >>,
      << serialize_f32(1) >>,
      << serialize_f32(1), ShortPayload, serialize_f32(1) >> }
RelayDatagrams ==
    { Malformed, GameStart } \cup { Welcome(s) : s \in Slots }
    \cup { TickInputs(t, ins) : t \in OfferedTicks, ins \in OfferedInputs }

\* What a client step leaves untouched outside the client's own resources.
ClientDone(c, kind, src, buf, out) ==
    /\ evt' = Event(c, kind, src, buf, out)
    /\ \E L \in Losses(out) :
          /\ toRelay' = toRelay \cup
                { [src |-> c, buf |-> out[i].buf] : i \in (1 .. Len(out)) \ L }
          /\ lost' = lost \cup { Transmission(c, Relay, out[i].buf) : i \in L }
          /\ loss_left' = loss_left - Cardinality(L)
    /\ delivered' = Noted(IF kind = "recv" THEN { Transmission(src, c, buf) } ELSE {},
                          { Transmission(c, Relay, out[i].buf) : i \in 1 .. Len(out) })
    /\ UNCHANGED << relayVars, toClient, accepted, hellos, latest, codec >>

\* A client that keeps sending Hello until the game is on.
hello_may_run_until_playing(c) == conn[c] # "Playing"

\* send_hello.run_if(is_connecting)
hello_may_run(c) == conn[c] = "Connecting"

\* send_hello on an expiry of the repeating HelloTimer.
send_hello(c) ==
    /\ c \notin panicked
    /\ hello_may_run(c)
    /\ ClientDone(c, "hello", c, Hello, << Dgram(Relay, Hello) >>)
    /\ UNCHANGED << clientVars, log, applied >>

\* The loop over inputs.iter().enumerate(): input.movement[i] = movement for
\* every payload an f32 decodes from; i is the 0-based index, mv is 1-based.
RECURSIVE ApplyInputs(_, _, _)
ApplyInputs(mv, inputs, i) ==
    IF i > Len(inputs) THEN mv
    ELSE LET m == deserialize_f32(inputs[i])
         IN  ApplyInputs(IF m = None THEN mv ELSE [mv EXCEPT ![i] = m[1]], inputs, i + 1)

\* The write input.movement[i] indexes a [f32; PLAYER_COUNT] array.
IndexOutOfBounds(inputs) ==
    \E i \in 1 .. Len(inputs) : i > PLAYER_COUNT /\ deserialize_f32(inputs[i]) # None

\* A Welcome branch that keeps the slot it recorded first.
welcome_slot_first_only(c, player_slot) ==
    IF conn[c] = "Connecting" THEN player_slot ELSE local_slot[c]

\* local_slot.0 = player_slot
welcome_slot(c, player_slot) == player_slot

\* A Welcome branch without the check of the state.
welcome_advances_always(c) == TRUE

\* if *state == ConnectionState::Connecting
welcome_advances(c) == conn[c] = "Connecting"

\* A GameStart branch that wants the Welcome first.
game_start_applies_waiting_only(c) == conn[c] = "WaitingForOpponent"

\* A GameStart branch without the check of the state.
game_start_applies_always(c) == TRUE

\* if *state != ConnectionState::Playing
game_start_applies(c) == conn[c] # "Playing"

\* A client that discards only the TickInputs of later ticks.
stale_tick_future_only(c, tick) == tick > sim_tick[c]

\* if tick != sim_tick.0
stale_tick(c, tick) == tick # sim_tick[c]

\* One iteration of receive_relay_messages' loop, on the datagram buf.
ClientHandle(c, buf) ==
    /\ c \notin panicked
    /\ ClientDone(c, "recv", Relay, buf, << >>)
    /\ UNCHANGED applied
    /\ CASE buf.type = "Welcome" ->
              /\ local_slot' = [local_slot EXCEPT ![c] = welcome_slot(c, buf.player_slot)]
              /\ conn' = [conn EXCEPT ![c] =
                            IF welcome_advances(c) THEN "WaitingForOpponent" ELSE @]
              /\ UNCHANGED << sim_tick, tick_ready, need_to_send_input, movement,
                              panicked, log >>
         [] buf.type = "GameStart" ->
              /\ conn' = [conn EXCEPT ![c] = IF game_start_applies(c) THEN "Playing" ELSE @]
              /\ need_to_send_input' =
                    [need_to_send_input EXCEPT ![c] = IF game_start_applies(c) THEN TRUE ELSE @]
              /\ UNCHANGED << local_slot, sim_tick, tick_ready, movement, panicked, log >>
         [] buf.type = "TickInputs" ->
              IF stale_tick(c, buf.tick)
              THEN UNCHANGED << clientVars, log >>
              ELSE IF IndexOutOfBounds(buf.inputs)
              THEN /\ panicked' = panicked \cup { c }
                   /\ UNCHANGED << conn, local_slot, sim_tick, tick_ready,
                                   need_to_send_input, movement, log >>
              ELSE /\ movement' = [movement EXCEPT ![c] = ApplyInputs(@, buf.inputs, 1)]
                   /\ tick_ready' = [tick_ready EXCEPT ![c] = TRUE]
                   /\ log' = [log EXCEPT ![c] =
                                IF tick_ready[c] THEN @ ELSE Append(@, << "ready", buf.tick >>)]
                   /\ UNCHANGED << conn, local_slot, sim_tick, need_to_send_input, panicked >>
         [] OTHER -> \* deserialize returned None
              UNCHANGED << clientVars, log >>

\* A client that sends its Input on every frame while Playing.
send_may_run_every_frame(c) == conn[c] = "Playing"

\* .run_if(is_playing).run_if(need_to_send)
send_may_run(c) == conn[c] = "Playing" /\ need_to_send_input[c]

\* A client whose flag survives the send.
need_after_send_kept(c) == need_to_send_input[c]

\* need.0 = false
need_after_send(c) == FALSE

\* read_and_send_local_input; m is the combined keyboard and gamepad value.
read_and_send_local_input(c, m) ==
    /\ c \notin panicked
    /\ send_may_run(c)
    /\ Len(applied[c]) < MaxTick
    /\ LET buf == Input(sim_tick[c], serialize_f32(m))
       IN  ClientDone(c, "input", c, buf, << Dgram(Relay, buf) >>)
    /\ need_to_send_input' = [need_to_send_input EXCEPT ![c] = need_after_send(c)]
    /\ log' = [log EXCEPT ![c] = Append(@, << "send", sim_tick[c] >>)]
    /\ UNCHANGED << conn, local_slot, sim_tick, tick_ready, movement, panicked, applied >>

\* post_tick_advance. At u32::MAX `sim_tick.0 += 1` overflows: a build with
\* overflow checks panics on it, a build without wraps to 0.
post_tick_advance(c) ==
    \/ /\ sim_tick' = [sim_tick EXCEPT ![c] = NextTick(@)]
       /\ tick_ready' = [tick_ready EXCEPT ![c] = FALSE]
       /\ need_to_send_input' = [need_to_send_input EXCEPT ![c] = TRUE]
       /\ panicked' = panicked
    \/ /\ sim_tick[c] = U32_MAX
       /\ panicked' = panicked \cup { c }
       /\ UNCHANGED << sim_tick, tick_ready, need_to_send_input >>

\* A chain gated on tick_is_ready alone.
step_may_run_when_ready(c) == tick_ready[c]

\* .run_if(is_playing).run_if(tick_is_ready)
step_may_run(c) == conn[c] = "Playing" /\ tick_ready[c]

\* One run of the FixedUpdate chain: move_paddles .. check_scoring read the
\* input array (the physics they compute is outside the protocol), and
\* post_tick_advance closes the tick.
SimulationStep(c) ==
    /\ c \notin panicked
    /\ step_may_run(c)
    /\ applied' = [applied EXCEPT ![c] = Append(@, movement[c])]
    /\ post_tick_advance(c)
    /\ log' = [log EXCEPT ![c] = Append(@, << "step", sim_tick[c] >>)]
    /\ ClientDone(c, "step", c, NoDatagram, << >>)
    /\ UNCHANGED << conn, local_slot, movement >>

\* ------------------------------------------------------------------ network

\* The relay's recv_from returns a datagram some client sent. A datagram stays
\* deliverable after a delivery (duplication), any sent one may be the next
\* (reordering), and one that is never delivered is lost.
RelayRecv == \E d \in toRelay : RelayHandle(d.src, d.buf)

\* A client's recv returns a datagram the relay sent to its address.
ClientRecv(c) == \E d \in toClient : d.dst = c /\ ClientHandle(c, d.buf)

\* One client alone: any datagram.
ClientRecvAny(c) == \E buf \in RelayDatagrams : ClientHandle(c, buf)

\* ------------------------------------------------------------------ init

\* The state after construction: RelayState::new(), and the resources the
\* client's plugins insert; the network may lose n transmissions outright.
Booted(n) ==
    /\ players = [ s \in Slots |-> None ]
    /\ game_started = FALSE
    /\ current_tick = 0
    /\ tick_inputs = [ s \in Slots |-> None ]
    /\ conn = [ c \in Addrs |-> "Connecting" ]
    /\ local_slot = [ c \in Addrs |-> 0 ]
    /\ sim_tick = [ c \in Addrs |-> 0 ]
    /\ tick_ready = [ c \in Addrs |-> FALSE ]
    /\ need_to_send_input = [ c \in Addrs |-> FALSE ]
    /\ movement = [ c \in Addrs |-> [ i \in 1 .. PLAYER_COUNT |-> 0 ] ]
    /\ panicked = {}
    /\ toRelay = {}
    /\ toClient = {}
    /\ lost = {}
    /\ loss_left = n
    /\ evt = Event(Relay, "init", Relay, NoDatagram, << >>)
    /\ accepted = {}
    /\ log = [ c \in Addrs |-> << >> ]
    /\ applied = [ c \in Addrs |-> << >> ]
    /\ hellos = << >>
    /\ latest = [ s \in Slots |-> None ]

\* Over a network that loses nothing outright.
Boot == Booted(0)

Init ==
    /\ Boot
    /\ delivered = Untracked
    /\ codec = NoCodec

RelayNext == RelayRecvAny

RelaySpec == Init /\ [][RelayNext]_vars

\* The address of the client that runs alone.
Alone == 1

ClientNext ==
    \/ send_hello(Alone)
    \/ ClientRecvAny(Alone)
    \/ \E m \in Movements : read_and_send_local_input(Alone, m)
    \/ SimulationStep(Alone)

ClientSpec == Init /\ [][ClientNext]_vars

\* The addresses that run the net_pong client in the composed system.
Clients == 1 .. 2

Next ==
    \/ RelayRecv
    \/ \E c \in Clients : send_hello(c)
    \/ \E c \in Clients : ClientRecv(c)
    \/ \E c \in Clients, m \in Movements : read_and_send_local_input(c, m)
    \/ \E c \in Clients : SimulationStep(c)

Spec == Init /\ [][Next]_vars

\* ------------------------------------------------------------------ codec

\* Messages to serialize: ticks on both sides of every length of the varint up
\* to u32::MAX, slots up to the largest u8, payloads and input arrays of
\* several lengths, the empty ones among them.
CodecTicks == { 0, 1, 127, 128, 16383, 16384, 2097152, 268435456, U32_MAX - 1, U32_MAX }
CodecSlots == { 0, 1, 127, 128, 255 }
CodecPayloads == { << >>, ShortPayload, serialize_f32(1), serialize_f32(-1) }
CodecInputs == OfferedInputs \cup { << >>, << << >>, << >> >> }
Messages ==
    { Hello, GameStart }
    \cup { Input(t, p) : t \in CodecTicks, p \in CodecPayloads }
    \cup { Welcome(s) : s \in CodecSlots }
    \cup { TickInputs(t, ins) : t \in CodecTicks, ins \in CodecInputs }

\* Every variable but codec.
restVars == << players, game_started, current_tick, tick_inputs,
               conn, local_slot, sim_tick, tick_ready, need_to_send_input, movement,
               panicked, toRelay, toClient, lost, loss_left,
               evt, accepted, log, applied, hellos, latest, delivered >>

\* serialize(&value)
Serialize ==
    /\ codec.stage = "value"
    /\ codec' = [stage |-> "bytes", value |-> codec.value,
                 made |-> to_allocvec(codec.value)]
    /\ UNCHANGED restVars

\* deserialize::<T>(&bytes), T the type of the value the bytes were made of.
Deserialize ==
    /\ codec.stage = "bytes"
    /\ codec.made # None
    /\ codec' = [stage |-> "result", value |-> codec.value, made |-> codec.made,
                 result |-> deserialize(TypeOf(codec.value), codec.made[1])]
    /\ UNCHANGED restVars

\* A message to serialize, in a program that has done nothing else.
CodecInit ==
    /\ Boot
    /\ delivered = Untracked
    /\ codec \in { [stage |-> "value", value |-> msg] : msg \in Messages }

CodecNext == Serialize \/ Deserialize

CodecSpec == CodecInit /\ [][CodecNext]_vars

\* ------------------------------------------------------------------ raw bytes

\* The relay's recv_from returns a buffer of arbitrary bytes from any address.
RelayRecvBytes ==
    \E src \in Addrs, bytes \in Buffers : RelayHandle(src, Datagram("ClientMessage", bytes))

\* A client's recv returns a buffer of arbitrary bytes.
ClientRecvBytes(c) ==
    \E bytes \in Buffers : ClientHandle(c, Datagram("RelayMessage", bytes))

\* The relay alone, handed messages and arbitrary bytes.
RelayAloneNext ==
    /\ evt.kind = "init" \/ evt.who = Relay
    /\ RelayRecvAny \/ RelayRecvBytes

\* One client alone, handed messages and arbitrary bytes.
ClientAloneNext ==
    /\ evt.kind = "init" \/ evt.who = Alone
    /\ ClientNext \/ ClientRecvBytes(Alone)

\* Either process alone: the behaviours of the relay and those of a client.
AloneNext == RelayAloneNext \/ ClientAloneNext

AloneSpec == Init /\ [][AloneNext]_vars

\* ------------------------------------------------------------------ mid-game

\* A session in play: addresses 1 and 2 hold slots 0 and 1, the game has
\* started, both clients are Playing and about to send the Input of tick t, the
\* relay waits for the Inputs of tick t, and no datagram of an earlier tick is
\* in flight any more. The history starts here. The network may lose n
\* transmissions outright.
InSession(t, n) ==
    /\ players = [ s \in Slots |-> Some(s + 1) ]
    /\ game_started = TRUE
    /\ current_tick = t
    /\ tick_inputs = [ s \in Slots |-> None ]
    /\ conn = [ c \in Addrs |-> IF c \in Clients THEN "Playing" ELSE "Connecting" ]
    /\ local_slot = [ c \in Addrs |-> IF c \in Clients THEN c - 1 ELSE 0 ]
    /\ sim_tick = [ c \in Addrs |-> IF c \in Clients THEN t ELSE 0 ]
    /\ tick_ready = [ c \in Addrs |-> FALSE ]
    /\ need_to_send_input = [ c \in Addrs |-> c \in Clients ]
    /\ movement = [ c \in Addrs |-> [ i \in 1 .. PLAYER_COUNT |-> 0 ] ]
    /\ panicked = {}
    /\ toRelay = {}
    /\ toClient = {}
    /\ lost = {}
    /\ loss_left = n
    /\ evt = Event(Relay, "init", Relay, NoDatagram, << >>)
    /\ accepted = {}
    /\ log = [ c \in Addrs |-> << >> ]
    /\ applied = [ c \in Addrs |-> << >> ]
    /\ hellos = << 1, 2 >>
    /\ latest = [ s \in Slots |-> None ]
    /\ delivered = Untracked
    /\ codec = NoCodec

\* The steps of a session in play: no client is Connecting, so no Hello.
PlayNext ==
    \/ RelayRecv
    \/ \E c \in Clients : ClientRecv(c)
    \/ \E c \in Clients, m \in Movements : read_and_send_local_input(c, m)
    \/ \E c \in Clients : SimulationStep(c)

\* A session in play over a network that loses up to MaxLost transmissions
\* outright, besides delaying, duplicating and reordering the ones it carries.
LossInit == InSession(0, MaxLost)

LossSpec == LossInit /\ [][PlayNext]_vars

\* A session in play whose ticks are the last but one a u32 holds.
WrapInit == InSession(U32_MAX - 1, 0)

WrapSpec == WrapInit /\ [][PlayNext]_vars

\* One client more than the relay has slots: every address runs the client, all
\* of them against the one relay, from construction. Which way a paddle moves
\* plays no part in who gets a slot: every player holds the same key down.
CrowdMovements == { 1 }

CrowdNext ==
    \/ RelayRecv
    \/ \E c \in Addrs : send_hello(c)
    \/ \E c \in Addrs : ClientRecv(c)
    \/ \E c \in Addrs, m \in CrowdMovements : read_and_send_local_input(c, m)
    \/ \E c \in Addrs : SimulationStep(c)

CrowdSpec == Init /\ [][CrowdNext]_vars

\* The Hello timer of every client keeps expiring.
CrowdFairSpec == CrowdSpec /\ \A c \in Addrs : WF_vars(send_hello(c))

\* The composed system over a network that loses nothing: whatever is sent is
\* delivered at least once, after any delay, in any order, with any number of
\* further copies; the relay's loop, the clients' Hello timers and frames keep
\* running. Which way a paddle moves plays no part in whether the game goes
\* on: every player holds the same key down.
LiveMovements == { 1 }

LiveInit ==
    /\ Boot
    /\ delivered = [on |-> TRUE, got |-> {}]
    /\ codec = NoCodec

LiveNext ==
    \/ RelayRecv
    \/ \E c \in Clients : send_hello(c)
    \/ \E c \in Clients : ClientRecv(c)
    \/ \E c \in Clients, mv \in LiveMovements : read_and_send_local_input(c, mv)
    \/ \E c \in Clients : SimulationStep(c)

\* Every transmission the clients and the relay of this system make.
LiveToRelay ==
    { Transmission(c, Relay, buf) :
        c \in Clients,
        buf \in { Hello }
                \cup { Input(t, serialize_f32(mv)) : t \in OfferedTicks, mv \in LiveMovements } }

LiveToClient ==
    { Transmission(Relay, c, buf) :
        c \in Clients,
        buf \in { Welcome(s) : s \in Slots } \cup { GameStart }
                \cup { TickInputs(t, << serialize_f32(m0), serialize_f32(m1) >>) :
                         t \in OfferedTicks, m0 \in LiveMovements, m1 \in LiveMovements } }

\* The first delivery of the transmission x since it was sent: to the relay, to
\* a client.
RelayRecvFirst(x) ==
    /\ [src |-> x.src, buf |-> x.buf] \in toRelay
    /\ x \notin delivered.got
    /\ RelayHandle(x.src, x.buf)

ClientRecvFirst(x) ==
    /\ Dgram(x.dst, x.buf) \in toClient
    /\ x \notin delivered.got
    /\ ClientHandle(x.dst, x.buf)

\* A datagram that waits for its first delivery does not wait for ever; a
\* timer that may expire and a system that may run do.
LiveSpec ==
    /\ LiveInit
    /\ [][LiveNext]_vars
    /\ \A x \in LiveToRelay : WF_vars(RelayRecvFirst(x))
    /\ \A x \in LiveToClient : WF_vars(ClientRecvFirst(x))
    /\ \A c \in Clients :
          /\ WF_vars(send_hello(c))
          /\ WF_vars(\E mv \in LiveMovements : read_and_send_local_input(c, mv))
          /\ WF_vars(SimulationStep(c))

\* The composed system from construction over a network that loses up to
\* MaxLost transmissions outright, besides delaying, duplicating and reordering
\* the ones it carries.
JoinLossInit ==
    /\ Booted(MaxLost)
    /\ delivered = Untracked
    /\ codec = NoCodec

JoinLossSpec == JoinLossInit /\ [][LiveNext]_vars

\* ============================================================== properties

\* The address holds a slot.
Registered(a) == \E s \in Slots : players[s] = Some(a)

\* The TickInputs datagrams the relay has sent.
TickInputsSent == { d \in toClient : d.buf.type = "TickInputs" }

\* The datagrams of the last step's output that carry a message of this type.
OutOfType(e, type) == { i \in 1 .. Len(e.out) : e.out[i].buf.type = type }

\* ------------------------------------------------------------------ C1
\* C1: for every tick T the relay has broadcast TickInputs{T} (one datagram to
\* each registered address) exactly when both slots have submitted an Input
\* with tick T while current_tick was T; right after the step that broadcasts
\* TickInputs{T}, current_tick is T+1 and no input is buffered.
C1_TickCompletion ==
    /\ \A T \in 0 .. MaxTick :
          /\ (\A s \in Slots : << s, T >> \in accepted) =>
                \E ins \in { d.buf.inputs : d \in TickInputsSent } :
                    \A s \in Slots :
                        /\ players[s] # None
                        /\ Dgram(players[s][1], TickInputs(T, ins)) \in toClient
          /\ (\E d \in TickInputsSent : d.buf.tick = T) =>
                \A s \in Slots : << s, T >> \in accepted
    /\ \A i \in OutOfType(evt, "TickInputs") :
          /\ evt.who = Relay
          /\ current_tick = evt.out[i].buf.tick + 1
          /\ \A s \in Slots : tick_inputs[s] = None

\* The relay has just broadcast the TickInputs of its second tick.
C1_Witness ==
    /\ evt.who = Relay
    /\ Len(evt.out) = 2
    /\ evt.out[1].buf.type = "TickInputs"
    /\ evt.out[1].buf.tick = 1
    /\ evt.out[1].dst # evt.out[2].dst

\* ------------------------------------------------------------------ C2
\* C2: in the composed system, for every tick T a client has stepped, the relay
\* sent exactly one TickInputs{T} message, the input array the client's step T
\* read is that message's inputs (each payload decoded, in slot order), and
\* every other client that stepped T read the same array.
C2_SameInputs ==
    \A c \in Clients : \A k \in 1 .. Len(applied[c]) :
        LET sent == { d.buf : d \in { e \in TickInputsSent : e.buf.tick = k - 1 } }
        IN  /\ Cardinality(sent) = 1
            /\ \A b \in sent :
                  /\ Len(b.inputs) = PLAYER_COUNT
                  /\ applied[c][k] =
                        [ i \in 1 .. PLAYER_COUNT |-> deserialize_f32(b.inputs[i])[1] ]
            /\ \A c2 \in Clients :
                  Len(applied[c2]) >= k => applied[c2][k] = applied[c][k]

\* Both clients have stepped ticks 0 and 1, on different inputs in the two ticks.
C2_Witness ==
    /\ \A c \in Clients : Len(applied[c]) = 2
    /\ applied[1][1] # applied[1][2]
    /\ applied[1][2][1] # applied[1][2][2]

\* ------------------------------------------------------------------ C3
\* C3: a client's simulation step runs only from a state whose connection state
\* is Playing and whose tick_ready is true, and the step leaves sim_tick one
\* greater than before, tick_ready false and need_to_send_input true.
C3_StepGated ==
    [][ \A c \in Addrs :
            (evt'.who = c /\ evt'.kind = "step") =>
                /\ conn[c] = "Playing"
                /\ tick_ready[c]
                /\ sim_tick'[c] = sim_tick[c] + 1
                /\ ~tick_ready'[c]
                /\ need_to_send_input'[c]
                /\ conn'[c] = "Playing" ]_vars

\* The client has just stepped its second tick.
C3_Witness ==
    /\ evt.who = Alone
    /\ evt.kind = "step"
    /\ sim_tick[Alone] = 2

\* ------------------------------------------------------------------ C4
\* The k-th event of a client that alternates send, ready, step per tick.
Alternation(k) ==
    << << "send", "ready", "step" >>[((k - 1) % 3) + 1], (k - 1) \div 3 >>

\* C4: in the composed system each client's events are, in order, send Input 0,
\* tick_ready for 0, step 0, send Input 1, tick_ready for 1, step 1, ...; an
\* Input is sent only from a state that is Playing with need_to_send_input
\* true, and the send clears the flag.
C4_Alternation ==
    /\ [](\A c \in Clients : \A k \in 1 .. Len(log[c]) : log[c][k] = Alternation(k))
    /\ [][ \A c \in Clients :
              (evt'.who = c /\ evt'.kind = "input") =>
                  /\ conn[c] = "Playing"
                  /\ need_to_send_input[c]
                  /\ ~need_to_send_input'[c]
                  /\ evt'.buf.tick = sim_tick[c] ]_vars

\* Both clients have gone through two whole rounds of send, ready, step.
C4_Witness ==
    \A c \in Clients :
        log[c] = << << "send", 0 >>, << "ready", 0 >>, << "step", 0 >>,
                    << "send", 1 >>, << "ready", 1 >>, << "step", 1 >> >>

\* ------------------------------------------------------------------ C5
\* Every slot of the table p holds an address.
BothFilled(p) == \A s \in Slots : p[s] # None

\* The addresses the step e sent a GameStart to.
GameStartDsts(e) == { e.out[i].dst : i \in OutOfType(e, "GameStart") }

\* No GameStart leaves before both slots are filled, and the step that fills
\* the second slot sends one GameStart to each of the two registered addresses.
GameStartGated ==
    /\ OutOfType(evt', "GameStart") # {} => BothFilled(players')
    /\ (~BothFilled(players) /\ BothFilled(players')) =>
          /\ Cardinality(OutOfType(evt', "GameStart")) = MAX_PLAYERS
          /\ GameStartDsts(evt') = { players'[s][1] : s \in Slots }

\* C5 as stated: the relay sends GameStart exactly when the second slot is
\* filled, as one broadcast, and never sends a GameStart datagram again.
C5_GameStartNeverResent ==
    [][ evt'.who = Relay =>
            /\ GameStartGated
            /\ BothFilled(players) => OutOfType(evt', "GameStart") = {} ]_vars

\* C5 as amended: the relay broadcasts GameStart exactly once, in the step that
\* fills the second slot, and sends none before; afterwards the only GameStart
\* datagrams are single re-sends to a registered address that says Hello again.
C5_GameStartBroadcastOnce ==
    [][ evt'.who = Relay =>
            /\ GameStartGated
            /\ (BothFilled(players) /\ OutOfType(evt', "GameStart") # {}) =>
                  /\ evt'.buf = Hello
                  /\ Registered(evt'.src)
                  /\ Cardinality(OutOfType(evt', "GameStart")) = 1
                  /\ GameStartDsts(evt') = { evt'.src } ]_vars

\* After the broadcast to both players, a player's repeated Hello has just been
\* answered with a Welcome and a GameStart of its own.
C5_Witness ==
    /\ \A s \in Slots : players[s] # None /\ Dgram(players[s][1], GameStart) \in toClient
    /\ evt.who = Relay
    /\ evt.buf = Hello
    /\ Len(evt.out) = 2
    /\ evt.out[1].buf.type = "Welcome"
    /\ evt.out[2] = Dgram(evt.src, GameStart)

\* ------------------------------------------------------------------ C6
\* C6: a Hello from an address that already holds a slot changes nothing of the
\* relay's state (players, game_started, current_tick, tick_inputs), and what
\* it sends goes to that address alone: no second registration, no broadcast.
C6_IdempotentHello ==
    [][ (evt'.who = Relay /\ evt'.buf = Hello /\ Registered(evt'.src)) =>
            /\ UNCHANGED << players, game_started, current_tick, tick_inputs >>
            /\ \A i \in 1 .. Len(evt'.out) : evt'.out[i].dst = evt'.src ]_vars

\* A registered address has said Hello again in the middle of tick 1, with an
\* input buffered: it got its Welcome and GameStart, and the buffer is intact.
C6_Witness ==
    /\ evt.who = Relay
    /\ evt.buf = Hello
    /\ players[1] = Some(evt.src)
    /\ game_started
    /\ current_tick = 1
    /\ tick_inputs[0] # None
    /\ evt.out = << Dgram(evt.src, Welcome(1)), Dgram(evt.src, GameStart) >>

\* ------------------------------------------------------------------ C7
\* C7: whatever else the relay is handed in between, the first address to say
\* Hello holds slot 0 and the next different address holds slot 1; each has
\* been sent a Welcome with its own slot, was never sent a Welcome with another
\* slot, and nobody else was sent a Welcome with that slot.
C7_SlotOrder ==
    \A k \in 1 .. Len(hellos) :
        k <= MAX_PLAYERS =>
            /\ players[k - 1] = Some(hellos[k])
            /\ Dgram(hellos[k], Welcome(k - 1)) \in toClient
            /\ \A d \in toClient :
                  d.buf.type = "Welcome" =>
                      (d.dst = hellos[k] <=> d.buf.player_slot = k - 1)

\* Address 2 said Hello first, address 3 second, address 1 third; Inputs and a
\* whole tick went by, and the last datagram handled was a malformed one.
C7_Witness ==
    /\ hellos = << 2, 3, 1 >>
    /\ current_tick = 1
    /\ tick_inputs[1] # None
    /\ evt.buf = Malformed

\* ------------------------------------------------------------------ C8
\* C8: handling an Input whose tick is not current_tick, lower or higher,
\* leaves the relay's state as it was, buffers nothing, and sends no datagram.
C8_WrongTickDropped ==
    [][ (evt'.who = Relay /\ evt'.buf.type = "Input" /\ evt'.buf.tick # current_tick) =>
            /\ UNCHANGED << players, game_started, current_tick, tick_inputs >>
            /\ evt'.out = << >>
            /\ toClient' = toClient
            /\ accepted' = accepted ]_vars

\* A registered player's Input for a later tick has just been handled while
\* the other player's input for the current tick is buffered.
C8_Witness ==
    /\ evt.who = Relay
    /\ evt.buf.type = "Input"
    /\ evt.buf.tick > current_tick
    /\ players[1] = Some(evt.src)
    /\ tick_inputs[0] # None
    /\ tick_inputs[1] = None

\* ------------------------------------------------------------------ C9
\* C9: a slot that holds an address holds the same address after every step: no
\* datagram clears a slot or replaces its address, so once both are filled no
\* other address gets one.
C9_SlotsNeverChange ==
    [][ \A s \in Slots : players[s] # None => players'[s] = players[s] ]_vars

\* With both slots filled, a third address has just said Hello and holds no slot.
C9_Witness ==
    /\ \A s \in Slots : players[s] # None
    /\ evt.who = Relay
    /\ evt.buf = Hello
    /\ \A s \in Slots : players[s] # Some(evt.src)
    /\ evt.out = << >>

\* ------------------------------------------------------------------ C10
\* Connecting, WaitingForOpponent, Playing in their order.
Rank(state) ==
    CASE state = "Connecting" -> 0
      [] state = "WaitingForOpponent" -> 1
      [] state = "Playing" -> 2

\* C10: a client's connection state starts as Connecting; every change of it
\* moves forward in the order Connecting, WaitingForOpponent, Playing (so
\* Playing is never left), and happens in a step that handles a received
\* Welcome or GameStart.
C10_ForwardOnly ==
    /\ \A c \in Addrs : conn[c] = "Connecting"
    /\ [][ \A c \in Addrs :
              conn'[c] # conn[c] =>
                  /\ Rank(conn'[c]) > Rank(conn[c])
                  /\ evt'.who = c
                  /\ evt'.kind = "recv"
                  /\ evt'.buf.type \in { "Welcome", "GameStart" } ]_vars

\* A Welcome has just been handled by a client that is Playing, after a step.
C10_Witness ==
    /\ evt.who = Alone
    /\ evt.kind = "recv"
    /\ evt.buf.type = "Welcome"
    /\ conn[Alone] = "Playing"
    /\ sim_tick[Alone] = 1



\* ------------------------------------------------------------------ C11
\* C11: serialize fails on no message (to_allocvec returns Ok, so the expect
\* does not panic), and deserialize of the bytes serialize made of a message,
\* at the message's own type, is Some of a message equal to it.
C11_RoundTrip ==
    /\ codec.stage \in { "bytes", "result" } => codec.made # None
    /\ codec.stage = "result" => codec.result = Some(codec.value)

\* An Input with tick u32::MAX and a four-byte payload has gone through both
\* helpers: seven bytes of variant and tick, one of length, four of payload.
C11_Witness ==
    /\ codec.stage = "result"
    /\ codec.value = Input(U32_MAX, serialize_f32(1))
    /\ codec.made = Some(<< 1, 255, 255, 255, 255, 15, 4, 0, 0, 128, 63 >>)
    /\ codec.result # None


\* ------------------------------------------------------------------ C12
\* C12: deserialize turns a buffer it cannot decode into None; the relay's
\* step on such a buffer leaves players, game_started, current_tick and
\* tick_inputs as they were, sends nothing and leaves the relay running; a
\* client's step on one leaves its connection state, slot, sim_tick,
\* tick_ready, need_to_send_input and inputs as they were, sends nothing and
\* leaves the client running.
C12_UndecodableSkipped ==
    [][ evt'.buf.type = "Malformed" =>
            /\ evt'.buf # Malformed =>
                  deserialize(IF evt'.who = Relay THEN "ClientMessage" ELSE "RelayMessage",
                              evt'.buf.bytes) = None
            /\ evt'.out = << >>
            /\ UNCHANGED << players, game_started, current_tick, tick_inputs,
                            conn, local_slot, sim_tick, tick_ready, need_to_send_input,
                            movement, toRelay, toClient, accepted, latest >>
            /\ evt'.who \notin panicked' ]_vars

\* In the middle of tick 1, with slot 0's input buffered, the relay has just
\* skipped a buffer that ends inside the varint of an Input's tick.
C12_Witness ==
    /\ evt.who = Relay
    /\ evt.buf = Undecodable(<< 1, 128 >>)
    /\ current_tick = 1
    /\ tick_inputs[0] # None
    /\ tick_inputs[1] = None
    /\ Relay \notin panicked

\* ------------------------------------------------------------------ C13
\* The lost transmissions of a client's Input, and of a TickInputs.
LostInputs == { d \in lost : d.buf.type = "Input" }
LostTickInputs == { d \in lost : d.buf.type = "TickInputs" }

\* The relay has sent (carried or lost) a TickInputs of tick T.
TickInputsMade(T) ==
    \/ \E d \in toClient : d.buf.type = "TickInputs" /\ d.buf.tick = T
    \/ \E d \in LostTickInputs : d.buf.tick = T

\* After the loss of a client's Input for tick T: nothing sends an Input for T
\* from that client again, the relay stays at tick T and makes no TickInputs{T},
\* and no client's sim_tick passes T.
StallAfterLostInput ==
    \A d \in LostInputs :
        LET T == d.buf.tick
        IN  /\ \A e \in toRelay : ~(e.src = d.src /\ e.buf.type = "Input" /\ e.buf.tick = T)
            /\ current_tick <= T
            /\ ~TickInputsMade(T)
            /\ \A c \in Clients : sim_tick[c] <= T

\* C13 as stated: after the loss of a client's Input for tick T or of a
\* TickInputs{T} datagram, nothing sends it again and no client's sim_tick ever
\* passes T; after the loss of the Input the relay never passes tick T either.
C13_StallAtLostTick ==
    /\ StallAfterLostInput
    /\ \A d \in LostTickInputs :
          LET T == d.buf.tick
          IN  /\ Dgram(d.dst, d.buf) \notin toClient
              /\ \A c \in Clients : sim_tick[c] <= T

\* C13 as amended: after the loss of a client's Input for tick T, nothing sends
\* it again, the relay never passes tick T and no client's sim_tick passes T;
\* after the loss of a TickInputs{T} datagram, nothing sends it again, its
\* addressee's sim_tick never passes T, and the relay, which is at T + 1, makes
\* no TickInputs{T + 1}, so that the other client's sim_tick never passes T + 1.
C13_StallAfterLoss ==
    /\ StallAfterLostInput
    /\ \A d \in LostTickInputs :
          LET T == d.buf.tick
          IN  /\ Dgram(d.dst, d.buf) \notin toClient
              /\ sim_tick[d.dst] <= T
              /\ current_tick = T + 1
              /\ ~TickInputsMade(T + 1)
              /\ \A c \in Clients : sim_tick[c] <= T + 1

\* Client 1's Input for tick 1 is lost: client 2's is buffered at the relay,
\* both clients have sent theirs and wait at tick 1.
C13_Witness ==
    /\ \E d \in LostInputs : d.src = 1 /\ d.buf.tick = 1
    /\ current_tick = 1
    /\ tick_inputs[1] # None
    /\ \A c \in Clients :
          /\ sim_tick[c] = 1
          /\ ~need_to_send_input[c]
          /\ ~tick_ready[c]

\* ------------------------------------------------------------------ C14
\* The order of the u32 values two ticks stand for.
TickBelow(a, b) ==
    \/ a >= 0 /\ b < 0
    \/ (a >= 0 <=> b >= 0) /\ a < b

\* C14: every change of the relay's current_tick and of a client's sim_tick
\* adds one to the counter and leaves its value greater than it was.
C14_TicksOnlyIncrease ==
    [][ /\ current_tick' # current_tick =>
              /\ current_tick' = NextTick(current_tick)
              /\ TickBelow(current_tick, current_tick')
        /\ \A c \in Addrs :
              sim_tick'[c] # sim_tick[c] =>
                  /\ sim_tick'[c] = NextTick(sim_tick[c])
                  /\ TickBelow(sim_tick[c], sim_tick'[c]) ]_vars

\* ------------------------------------------------------------------ C15
\* C15: a Hello from an address that holds no slot, handled when both slots
\* are filled, leaves players, game_started, current_tick and tick_inputs as
\* they were and sends no datagram, to that address or to anybody.
C15_FullHelloDropped ==
    [][ (evt'.who = Relay /\ evt'.buf = Hello
            /\ ~Registered(evt'.src) /\ BothFilled(players)) =>
            /\ UNCHANGED << players, game_started, current_tick, tick_inputs >>
            /\ evt'.out = << >>
            /\ toClient' = toClient ]_vars

\* In the middle of tick 1 a third address has just said Hello; the relay has
\* never sent it anything.
C15_Witness ==
    /\ evt.who = Relay
    /\ evt.buf = Hello
    /\ ~Registered(evt.src)
    /\ BothFilled(players)
    /\ current_tick = 1
    /\ tick_inputs[1] # None
    /\ \A d \in toClient : d.dst # evt.src

\* ------------------------------------------------------------------ C16
\* C16: an Input from an address that holds no slot, whatever its tick, leaves
\* tick_inputs, current_tick, players and game_started as they were, counts as
\* nobody's submission, and sends no datagram.
C16_UnknownInputDropped ==
    [][ (evt'.who = Relay /\ evt'.buf.type = "Input" /\ ~Registered(evt'.src)) =>
            /\ UNCHANGED << players, game_started, current_tick, tick_inputs >>
            /\ evt'.out = << >>
            /\ toClient' = toClient
            /\ accepted' = accepted
            /\ latest' = latest ]_vars

\* An address without a slot has just sent an Input for the current tick, for
\* which slot 0's input is buffered and slot 1's is missing.
C16_Witness ==
    /\ evt.who = Relay
    /\ evt.buf.type = "Input"
    /\ ~Registered(evt.src)
    /\ game_started
    /\ evt.buf.tick = current_tick
    /\ tick_inputs[0] # None
    /\ tick_inputs[1] = None

\* ------------------------------------------------------------------ C17
\* C17: the relay answers a Hello from an address that holds slot s with a
\* Welcome{s} to that address, followed by one GameStart to that address when
\* game_started is true and by nothing when it is false; no datagram of the
\* answer goes to another address.
C17_KnownHelloReply ==
    [][ \A s \in Slots :
            (evt'.who = Relay /\ evt'.buf = Hello /\ players[s] = Some(evt'.src)) =>
                /\ Len(evt'.out) = (IF game_started THEN 2 ELSE 1)
                /\ evt'.out[1] = Dgram(evt'.src, Welcome(s))
                /\ game_started => evt'.out[2] = Dgram(evt'.src, GameStart)
                /\ \A d \in toClient' \ toClient : d.dst = evt'.src ]_vars

\* The holder of slot 0 has said Hello again after the game started and got
\* its Welcome and a GameStart; the other player got nothing but its own.
C17_Witness ==
    /\ evt.who = Relay
    /\ evt.buf = Hello
    /\ players[0] = Some(evt.src)
    /\ players[1] # None
    /\ game_started
    /\ evt.out = << Dgram(evt.src, Welcome(0)), Dgram(evt.src, GameStart) >>
    /\ Cardinality({ d \in toClient : d.dst = players[1][1] }) = 2

\* ------------------------------------------------------------------ C18
\* C18: a step of the relay that sends TickInputs{T} sends the same message
\* once to each of the two registered addresses and nothing else; T is the
\* current tick, the message has one payload per slot in slot order, and the
\* payload of slot s is the payload of the last Input with tick T the relay
\* received from slot s's address while its current tick was T.
C18_TickInputsVerbatim ==
    [][ \A i \in OutOfType(evt', "TickInputs") :
            LET b == evt'.out[i].buf
            IN  /\ evt'.who = Relay
                /\ b.tick = current_tick
                /\ Len(b.inputs) = MAX_PLAYERS
                /\ Len(evt'.out) = MAX_PLAYERS
                /\ \A s \in Slots :
                      /\ players[s] # None
                      /\ evt'.out[s + 1] = Dgram(players[s][1], b)
                      /\ latest'[s] # None
                      /\ latest'[s][1].tick = b.tick
                      /\ b.inputs[s + 1] = latest'[s][1].payload ]_vars

\* The relay has just broadcast the inputs of tick 1, which differ from those
\* of tick 0 in both slots.
C18_Witness ==
    /\ evt.who = Relay
    /\ Len(evt.out) = 2
    /\ evt.out[1].buf = TickInputs(1, << ShortPayload, serialize_f32(1) >>)
    /\ evt.out[2].buf = evt.out[1].buf
    /\ \E d \in toClient : d.buf = TickInputs(0, << serialize_f32(1), ShortPayload >>)

\* ------------------------------------------------------------------ C19
\* C19: a client that handles Welcome{slot} records slot as its local slot in
\* every state; its connection state becomes WaitingForOpponent when it was
\* Connecting and stays what it was otherwise; sim_tick, tick_ready and
\* need_to_send_input stay what they were.
C19_WelcomeFrame ==
    [][ \A c \in Addrs :
            (evt'.who = c /\ evt'.kind = "recv" /\ evt'.buf.type = "Welcome") =>
                /\ local_slot'[c] = evt'.buf.player_slot
                /\ conn'[c] = (IF conn[c] = "Connecting" THEN "WaitingForOpponent"
                               ELSE conn[c])
                /\ sim_tick'[c] = sim_tick[c]
                /\ tick_ready'[c] = tick_ready[c]
                /\ need_to_send_input'[c] = need_to_send_input[c] ]_vars

\* A Welcome with slot 1 has just been handled by a client that is Playing,
\* has sent its Input and holds the inputs of its tick.
C19_Witness ==
    /\ evt.who = Alone
    /\ evt.kind = "recv"
    /\ evt.buf = Welcome(1)
    /\ local_slot[Alone] = 1
    /\ conn[Alone] = "Playing"
    /\ tick_ready[Alone]
    /\ ~need_to_send_input[Alone]

\* ------------------------------------------------------------------ C20
\* C20: a client that handles GameStart while Connecting or WaitingForOpponent
\* becomes Playing with need_to_send_input true; one that handles it while
\* Playing keeps its connection state, slot, sim_tick, tick_ready, inputs and
\* need_to_send_input, so a cleared need_to_send_input stays cleared.
C20_GameStartOnce ==
    [][ \A c \in Addrs :
            (evt'.who = c /\ evt'.kind = "recv" /\ evt'.buf = GameStart) =>
                /\ conn[c] # "Playing" =>
                      /\ conn'[c] = "Playing"
                      /\ need_to_send_input'[c]
                /\ conn[c] = "Playing" =>
                      /\ conn'[c] = "Playing"
                      /\ need_to_send_input'[c] = need_to_send_input[c]
                      /\ sim_tick'[c] = sim_tick[c]
                      /\ tick_ready'[c] = tick_ready[c]
                      /\ local_slot'[c] = local_slot[c]
                      /\ movement'[c] = movement[c] ]_vars

\* A second GameStart has just been handled by a client that sent the Input of
\* tick 0 and waits for the relay: need_to_send_input is still false.
C20_Witness ==
    /\ evt.who = Alone
    /\ evt.kind = "recv"
    /\ evt.buf = GameStart
    /\ conn[Alone] = "Playing"
    /\ log[Alone] = << << "send", 0 >> >>
    /\ ~need_to_send_input[Alone]

\* ------------------------------------------------------------------ C21
\* C21: a client's step on a TickInputs whose tick is not its sim_tick leaves
\* its input array, tick_ready, sim_tick and connection state as they were; its
\* step on one whose tick is its sim_tick leaves in the input array, for every
\* slot whose payload is an f32, that f32, sets tick_ready to true, and leaves
\* sim_tick, the connection state and need_to_send_input as they were.
C21_TickInputsApplied ==
    [][ \A c \in Addrs :
            (evt'.who = c /\ evt'.kind = "recv" /\ evt'.buf.type = "TickInputs") =>
                IF evt'.buf.tick # sim_tick[c]
                THEN /\ movement'[c] = movement[c]
                     /\ tick_ready'[c] = tick_ready[c]
                     /\ sim_tick'[c] = sim_tick[c]
                     /\ conn'[c] = conn[c]
                ELSE /\ \A i \in 1 .. Len(evt'.buf.inputs) :
                            (i <= PLAYER_COUNT /\ deserialize_f32(evt'.buf.inputs[i]) # None) =>
                                Some(movement'[c][i]) = deserialize_f32(evt'.buf.inputs[i])
                     /\ tick_ready'[c]
                     /\ sim_tick'[c] = sim_tick[c]
                     /\ conn'[c] = conn[c]
                     /\ need_to_send_input'[c] = need_to_send_input[c] ]_vars

\* ------------------------------------------------------------------ C22
\* A client's step from Connecting to another connection state.
LeavesConnecting(c) == conn[c] = "Connecting" /\ conn'[c] # "Connecting"

\* C22 as stated: a client sends Hello only while Connecting, a Hello can be
\* sent whenever it is Connecting, and it leaves Connecting (and so stops
\* sending Hello) only on receiving a Welcome.
C22_HelloUntilWelcome ==
    /\ [](\A c \in Clients : (conn[c] = "Connecting" /\ c \notin panicked) => ENABLED send_hello(c))
    /\ [][ \A c \in Clients :
              /\ (evt'.who = c /\ evt'.kind = "hello") => conn[c] = "Connecting"
              /\ LeavesConnecting(c) =>
                    (evt'.who = c /\ evt'.kind = "recv" /\ evt'.buf.type = "Welcome") ]_vars

\* C22, amended: a client sends Hello only while Connecting, a Hello can be
\* sent whenever it is Connecting, and it leaves Connecting (and so stops
\* sending Hello) only on receiving a Welcome or a GameStart.
C22_HelloWhileConnecting ==
    /\ [](\A c \in Clients : (conn[c] = "Connecting" /\ c \notin panicked) => ENABLED send_hello(c))
    /\ [](\A c \in Clients : (conn[c] # "Connecting") => ~ ENABLED send_hello(c))
    /\ [][ \A c \in Clients :
              /\ (evt'.who = c /\ evt'.kind = "hello") =>
                    (conn[c] = "Connecting" /\ conn'[c] = "Connecting")
              /\ LeavesConnecting(c) =>
                    /\ evt'.who = c /\ evt'.kind = "recv"
                    /\ evt'.buf.type \in { "Welcome", "GameStart" } ]_vars

\* The player in slot 1 is Playing on a GameStart and has handled no Welcome:
\* its local slot is still the initial 0.
C22_Witness ==
    \E c \in Clients :
        /\ players[1] = Some(c) /\ conn[c] = "Playing" /\ local_slot[c] = 0
        /\ evt.who = c /\ evt.kind = "recv" /\ evt.buf.type = "GameStart"

\* ------------------------------------------------------------------ C23
\* The address runs a client that holds no slot of a relay whose slots are all
\* taken.
TurnedAway(a) == all_slots_filled(players) /\ ~ Registered(a)

\* C23: once the relay is full its slots never change, and a client whose
\* address holds no slot is never sent a datagram, a Welcome in particular, is
\* Connecting in every state, can send a Hello in every state and, its timer
\* expiring again and again, sends a Hello again and again for ever; its sending
\* Hello changes nothing but the network, and the relay's handling of its Hello
\* changes no variable of the relay and sends nothing, so that no variable of a
\* registered player changes in either.
C23_TurnedAwayForever ==
    /\ [](\A a \in Addrs :
            TurnedAway(a) =>
                /\ \A d \in toClient : d.dst # a
                /\ conn[a] = "Connecting"
                /\ ENABLED send_hello(a))
    /\ \A a \in Addrs :
            [](TurnedAway(a) => []<>(evt.who = a /\ evt.kind = "hello" /\ evt.out # << >>))
    /\ [][ /\ all_slots_filled(players) => players' = players
           /\ \A a \in Addrs :
                (TurnedAway(a) /\ (evt'.who = a \/ (evt'.who = Relay /\ evt'.src = a))) =>
                    /\ evt'.buf = Hello
                    /\ evt'.who = Relay => evt'.out = << >>
                    /\ UNCHANGED << relayVars, clientVars, toClient, log, applied >> ]_vars

\* A turned-away client has sent a Hello, the relay has handled it, and the two
\* registered players have stepped a tick since.
C23_Witness ==
    \E a \in Addrs :
        /\ TurnedAway(a)
        /\ evt.who = Relay /\ evt.src = a /\ evt.buf = Hello
        /\ \A c \in Addrs \ { a } : sim_tick[c] >= 1

\* ------------------------------------------------------------------ C24
IsSend(e) == e[1] = "send"

\* The ticks a client has sent an Input for, in the order of sending.
SentTicks(c) == [ i \in 1 .. Len(SelectSeq(log[c], IsSend)) |-> SelectSeq(log[c], IsSend)[i][2] ]

\* The sequence is 0, 1, 2, ...: increasing by one from 0, nothing twice,
\* nothing left out.
CountsFromZero(ticks) == \A i \in 1 .. Len(ticks) : ticks[i] = i - 1

\* C24: the ticks of the Inputs a client has sent are 0, 1, 2, ... in the order
\* of sending, and every Input carries the sim_tick the client has when it
\* sends, which the sending leaves as it is.
C24_OneInputPerTick ==
    /\ [](\A c \in Clients : CountsFromZero(SentTicks(c)))
    /\ [][ \A c \in Clients :
              (evt'.who = c /\ evt'.kind = "input") =>
                  /\ evt'.buf.type = "Input"
                  /\ evt'.buf.tick = sim_tick[c]
                  /\ sim_tick'[c] = sim_tick[c]
                  /\ SentTicks(c)' = Append(SentTicks(c), sim_tick[c]) ]_vars

\* Both clients have sent the Inputs of ticks 0 and 1.
C24_Witness ==
    /\ \A c \in Clients : SentTicks(c) = << 0, 1 >>
    /\ evt.kind = "input" /\ evt.buf.tick = 1

\* ------------------------------------------------------------------ C25
IsReadyOrStep(e) == e[1] \in { "ready", "step" }

\* The arrivals of a TickInputs that made a tick ready and the steps of the
\* simulation, in the order they happened at a client.
Progress(c) == SelectSeq(log[c], IsReadyOrStep)

\* C25: whatever TickInputs datagrams arrive, in whatever order and however
\* often, a client's history is: TickInputs{0} arrives, tick 0 is stepped,
\* TickInputs{1} arrives, tick 1 is stepped, ...; every step is of the tick
\* sim_tick, is taken with tick_ready set, and adds one to sim_tick.
C25_StepsInOrder ==
    /\ [](\A c \in Addrs :
            \A i \in 1 .. Len(Progress(c)) :
                Progress(c)[i] = << IF i % 2 = 1 THEN "ready" ELSE "step", (i - 1) \div 2 >>)
    /\ [][ \A c \in Addrs :
              (evt'.who = c /\ evt'.kind = "step") =>
                  /\ tick_ready[c]
                  /\ Progress(c)' = Append(Progress(c), << "step", sim_tick[c] >>)
                  /\ c \notin panicked' => sim_tick'[c] = sim_tick[c] + 1 ]_vars

\* The client has stepped tick 0, TickInputs{1} has arrived, and TickInputs{0}
\* arrives once more.
C25_Witness ==
    \E c \in Addrs :
        /\ Progress(c) = << << "ready", 0 >>, << "step", 0 >>, << "ready", 1 >> >>
        /\ evt.who = c /\ evt.kind = "recv"
        /\ evt.buf.type = "TickInputs" /\ evt.buf.tick = 0

\* ------------------------------------------------------------------ C26
\* A client's connection state.
ConnectionResources(c) ==
    << conn[c], local_slot[c], sim_tick[c], tick_ready[c], need_to_send_input[c] >>

\* C26 as stated: a client's connection state, local slot, sim_tick,
\* tick_ready and need_to_send_input change only in a step of its receive path
\* or of its simulation (post_tick_advance): its sending of an Input or of a
\* Hello changes none of them.
C26_OnlyReceiveAndAdvance ==
    [][ \A c \in Addrs :
            ConnectionResources(c)' # ConnectionResources(c) =>
                (evt'.who = c /\ evt'.kind \in { "recv", "step" }) ]_vars

\* C26, amended: a client's connection state, local slot, sim_tick and
\* tick_ready change only in a step of its receive path or of its simulation;
\* need_to_send_input changes in these and in the sending of an Input, which
\* sets it to false; the sending of a Hello changes none of the five.
C26_SendClearsFlagOnly ==
    [][ \A c \in Addrs :
            /\ << conn[c], local_slot[c], sim_tick[c], tick_ready[c] >>' #
                    << conn[c], local_slot[c], sim_tick[c], tick_ready[c] >> =>
                 (evt'.who = c /\ evt'.kind \in { "recv", "step" })
            /\ need_to_send_input'[c] # need_to_send_input[c] =>
                 (evt'.who = c /\ evt'.kind \in { "recv", "step", "input" })
            /\ (evt'.who = c /\ evt'.kind = "input") =>
                 (need_to_send_input[c] /\ ~ need_to_send_input'[c])
            /\ (evt'.who = c /\ evt'.kind = "hello") =>
                 ConnectionResources(c)' = ConnectionResources(c) ]_vars

\* The client has sent the Input of tick 1: the flag is down, the rest is as
\* the step before left it.
C26_Witness ==
    \E c \in Addrs :
        /\ evt.who = c /\ evt.kind = "input"
        /\ ConnectionResources(c) = << "Playing", local_slot[c], 1, FALSE, FALSE >>

\* ------------------------------------------------------------------ C27
\* The TickInputs messages the relay has broadcast: one message a broadcast,
\* whatever the number of addresses it went to.
Broadcasts == { d.buf : d \in TickInputsSent }

\* C27: current_tick is the number of TickInputs broadcasts made so far, and
\* the ticks broadcast are 0 .. current_tick - 1, one broadcast each; a step
\* changes current_tick exactly when it broadcasts a TickInputs, the broadcast
\* carries the tick current_tick had, no TickInputs of that tick was sent
\* before, and current_tick is one more afterwards.
C27_TickCountsBroadcasts ==
    /\ [](/\ Cardinality(Broadcasts) = current_tick
          /\ { b.tick : b \in Broadcasts } = 0 .. (current_tick - 1))
    /\ [][ /\ current_tick' # current_tick <=> OutOfType(evt', "TickInputs") # {}
           /\ \A i \in OutOfType(evt', "TickInputs") :
                /\ evt'.who = Relay
                /\ evt'.out[i].buf.tick = current_tick
                /\ \A b \in Broadcasts : b.tick < current_tick
                /\ current_tick' = current_tick + 1 ]_vars

\* The relay has just made its second broadcast.
C27_Witness ==
    /\ current_tick = 2
    /\ evt.who = Relay /\ OutOfType(evt, "TickInputs") # {}
    /\ Cardinality(Broadcasts) = 2

\* ------------------------------------------------------------------ C28
\* The Welcome datagrams sent to the address.
WelcomesTo(a) == { d \in toClient : d.dst = a /\ d.buf.type = "Welcome" }

\* C28: in the composed system all the Welcomes sent to an address carry one
\* slot, the slot the relay holds the address in; a client's local slot is
\* that slot after every Welcome it handles, and it changes at most once, from
\* its initial 0 on a Welcome: no later Welcome makes it another value.
C28_LocalSlotFixed ==
    /\ [](\A c \in Clients :
            \A d \in WelcomesTo(c) : players[d.buf.player_slot] = Some(c))
    /\ [][ \A c \in Clients :
              /\ (evt'.who = c /\ evt'.kind = "recv" /\ evt'.buf.type = "Welcome") =>
                    players[local_slot'[c]] = Some(c)
              /\ local_slot'[c] # local_slot[c] =>
                    /\ evt'.who = c /\ evt'.kind = "recv" /\ evt'.buf.type = "Welcome"
                    /\ local_slot[c] = 0
                    /\ conn[c] # "WaitingForOpponent" ]_vars

\* The player in slot 1 handles a Welcome in the middle of the game, having
\* stepped a tick: its local slot is 1 as before.
C28_Witness ==
    \E c \in Clients :
        /\ evt.who = c /\ evt.kind = "recv" /\ evt.buf.type = "Welcome"
        /\ players[1] = Some(c) /\ local_slot[c] = 1
        /\ conn[c] = "Playing" /\ sim_tick[c] >= 1

\* ------------------------------------------------------------------ C29
\* C29: in the composed system the relay's current_tick is, in every state,
\* the sim_tick of each client or one more.
C29_RelayAtMostOneAhead ==
    \A c \in Clients : sim_tick[c] <= current_tick /\ current_tick <= sim_tick[c] + 1

\* The relay has completed tick 1 and is at tick 2; one client has stepped
\* tick 1 and has caught up, the other has not yet.
C29_Witness ==
    /\ current_tick = 2
    /\ \E c, d \in Clients : sim_tick[c] = 2 /\ sim_tick[d] = 1

\* ------------------------------------------------------------------ C30
\* C30: in the composed system the two clients' sim_ticks differ by at most
\* one in every state, and a client steps a tick only when the other client
\* has stepped every earlier tick: the stepping client is never the one ahead.
C30_ClientsWithinOneTick ==
    /\ [](\A c, d \in Clients : sim_tick[c] <= sim_tick[d] + 1)
    /\ [][ \A c, d \in Clients :
              (evt'.who = c /\ evt'.kind = "step") =>
                  /\ sim_tick[c] <= sim_tick[d]
                  /\ Len(applied[d]) >= sim_tick[c] ]_vars

\* One client has stepped tick 1 while the other has stepped tick 0 only.
C30_Witness ==
    \E c, d \in Clients :
        /\ evt.who = c /\ evt.kind = "step"
        /\ sim_tick[c] = 2 /\ sim_tick[d] = 1
        /\ Len(applied[c]) = 2 /\ Len(applied[d]) = 1

\* ------------------------------------------------------------------ C31
\* C31: in the composed system no TickInputs sent to a client carries a tick
\* above the client's sim_tick, in any state; and every TickInputs a client
\* discards for its tick is of a tick below its sim_tick that the client has
\* stepped.
C31_NoFutureTickInputs ==
    /\ [](\A c \in Clients :
            \A d \in TickInputsSent : d.dst = c => d.buf.tick <= sim_tick[c])
    /\ [][ \A c \in Clients :
              (/\ evt'.who = c /\ evt'.kind = "recv" /\ evt'.buf.type = "TickInputs"
               /\ evt'.buf.tick # sim_tick[c]) =>
                  /\ evt'.buf.tick < sim_tick[c]
                  /\ \E i \in 1 .. Len(log[c]) : log[c][i] = << "step", evt'.buf.tick >> ]_vars

\* A client at sim_tick 1 has just discarded a late copy of TickInputs{0}.
C31_Witness ==
    \E c \in Clients :
        /\ evt.who = c /\ evt.kind = "recv"
        /\ evt.buf.type = "TickInputs" /\ evt.buf.tick = 0
        /\ sim_tick[c] = 1 /\ ~ tick_ready[c]

\* ------------------------------------------------------------------ C32
\* The client has stepped tick T.
Stepped(c, T) == \E i \in 1 .. Len(log[c]) : log[c][i] = << "step", T >>

\* C32: over a network that loses nothing, with the relay and both clients
\* running on, there comes a state from which on both clients are Playing
\* and, for every tick T, the relay has broadcast TickInputs{T} and both
\* clients have stepped T.
C32_NoDeadlock ==
    <>[](/\ \A c \in Clients : conn[c] = "Playing"
         /\ \A T \in OfferedTicks :
               /\ \E b \in Broadcasts : b.tick = T
               /\ \A c \in Clients : Stepped(c, T))

\* Both clients have stepped every tick up to the last one.
C32_Witness ==
    /\ \A c \in Clients : conn[c] = "Playing" /\ Stepped(c, MaxTick - 1)
    /\ current_tick = MaxTick

\* ------------------------------------------------------------------ C33
\* The relay's GameStart to the address was lost on the way and none has been
\* carried to it: the one of the broadcast is among the lost.
GameStartLost(c) ==
    /\ Transmission(Relay, c, GameStart) \in lost
    /\ Dgram(c, GameStart) \notin toClient

\* A client in WaitingForOpponent can send neither a Hello nor an Input, no
\* step it takes sends a datagram, and it leaves the state only on receiving a
\* GameStart, for Playing.
WaitingIsSilent ==
    /\ [](\A c \in Clients :
            conn[c] = "WaitingForOpponent" =>
                /\ ~ ENABLED send_hello(c)
                /\ \A mv \in LiveMovements : ~ ENABLED read_and_send_local_input(c, mv))
    /\ [][ \A c \in Clients :
              conn[c] = "WaitingForOpponent" =>
                  /\ evt'.who = c => evt'.out = << >>
                  /\ conn'[c] # conn[c] =>
                        /\ evt'.who = c /\ evt'.kind = "recv" /\ evt'.buf = GameStart
                        /\ conn'[c] = "Playing" ]_vars

\* C33 as stated: a client in WaitingForOpponent sends nothing and leaves the
\* state only on a GameStart; a client is never Playing without a GameStart
\* carried to it; and once the GameStart of the broadcast to a client is lost,
\* no step brings a GameStart to that client.
C33_StuckAfterLostGameStart ==
    /\ WaitingIsSilent
    /\ [](\A c \in Clients : conn[c] = "Playing" => Dgram(c, GameStart) \in toClient)
    /\ [][ \A c \in Clients : GameStartLost(c) => GameStartLost(c)' ]_vars

\* C33, amended: a client in WaitingForOpponent sends nothing and leaves the
\* state only on a GameStart; the relay sends a GameStart to an address only
\* in the broadcast of the step that fills the last slot, or with the Welcome
\* it answers that address's own Hello with once the game has started; a
\* client is never Playing without a GameStart carried to it, so one whose
\* GameStart was lost is Playing only if the relay sent it another.
C33_StuckUnlessHelloAnswered ==
    /\ WaitingIsSilent
    /\ [](\A c \in Clients : conn[c] = "Playing" => Dgram(c, GameStart) \in toClient)
    /\ [][ \A c \in Clients :
              (\E i \in 1 .. Len(evt'.out) : evt'.out[i] = Dgram(c, GameStart)) =>
                  /\ evt'.who = Relay /\ evt'.buf = Hello
                  /\ \/ ~ game_started /\ game_started'
                     \/ game_started /\ evt'.src = c /\ Registered(c) ]_vars

\* The GameStart of the broadcast was lost on its way to a client, and the
\* client is in WaitingForOpponent while the other plays.
C33_Witness ==
    \E c, d \in Clients :
        /\ GameStartLost(c) /\ conn[c] = "WaitingForOpponent"
        /\ conn[d] = "Playing" /\ evt.who = d /\ evt.kind = "input"

\* ------------------------------------------------------------------ C34
\* C34: in the composed system, in every state and for every client,
\* tick_ready and need_to_send_input are not both true, and each of them is
\* true only while the client is Playing.
C34_FlagsLegal ==
    \A c \in Clients :
        /\ ~ (tick_ready[c] /\ need_to_send_input[c])
        /\ tick_ready[c] => conn[c] = "Playing"
        /\ need_to_send_input[c] => conn[c] = "Playing"

\* One client holds the inputs of tick 1 (tick_ready, Input sent) and the
\* other has just stepped tick 1 (need_to_send_input, not tick_ready).
C34_Witness ==
    \E c, d \in Clients :
        /\ tick_ready[c] /\ ~ need_to_send_input[c] /\ sim_tick[c] = 1
        /\ need_to_send_input[d] /\ ~ tick_ready[d] /\ sim_tick[d] = 2
        /\ evt.who = d /\ evt.kind = "step"

\* ------------------------------------------------------------------ C35
\* C35: in every state of the relay between two datagrams, game_started is
\* true exactly when both slots hold an address; current_tick above 0 implies
\* game_started; a TickInputs has been sent only if a GameStart has been sent,
\* and the step that sends a TickInputs finds game_started true.
C35_StartedIffFull ==
    /\ [](/\ game_started <=> BothFilled(players)
          /\ current_tick > 0 => game_started
          /\ TickInputsSent # {} => \E d \in toClient : d.buf = GameStart)
    /\ [][ OutOfType(evt', "TickInputs") # {} => game_started ]_vars

\* The player in slot 0 has had an Input of tick 0 buffered by a relay whose
\* game has not started.
C35_Witness ==
    /\ ~ game_started
    /\ tick_inputs[0] # None /\ tick_inputs[1] = None
    /\ evt.who = Relay /\ evt.buf.type = "Input" /\ players[0] = Some(evt.src)
    /\ current_tick = 0 /\ TickInputsSent = {}

\* ------------------------------------------------------------------ C36
\* C36: every datagram a step of the relay sends goes to an address that holds
\* a slot when the step sends it; a step on a datagram whose sender holds no
\* slot after it sends nothing at all; and in every state every datagram the
\* relay has sent is addressed to an address that holds a slot.
C36_OnlyToRegistered ==
    /\ [](\A d \in toClient : Registered(d.dst))
    /\ [][ evt'.who = Relay =>
              /\ \A i \in 1 .. Len(evt'.out) :
                    \E s \in Slots : players'[s] = Some(evt'.out[i].dst)
              /\ (\A s \in Slots : players'[s] # Some(evt'.src)) => evt'.out = << >> ]_vars

\* The game is on, a tick has been broadcast, and an address that holds no
\* slot has sent a malformed datagram: nothing the relay has sent is addressed
\* to it.
C36_Witness ==
    /\ BothFilled(players) /\ current_tick >= 1
    /\ evt.who = Relay /\ ~ Registered(evt.src)
    /\ evt.buf = Malformed
    /\ \A d \in toClient : d.dst # evt.src

\* ------------------------------------------------------------------ C37
\* The slots that hold the address.
SlotsOf(a) == { s \in Slots : players[s] = Some(a) }

\* C37: in every state of the relay no address is held by more than one slot,
\* and a slot is filled only if every slot below it is; find_player gives, for
\* an address that holds a slot, that one slot, and gives the same slot after
\* every step.
C37_SlotsDistinct ==
    /\ [](/\ \A a \in Addrs : Cardinality(SlotsOf(a)) <= 1
          /\ \A s, t \in Slots : (players[t] # None /\ s < t) => players[s] # None
          /\ \A a \in Addrs :
                find_player(a) = (IF SlotsOf(a) = {} THEN None
                                  ELSE Some(CHOOSE s \in Slots : s \in SlotsOf(a))))
    /\ [][ \A a \in Addrs : SlotsOf(a) # {} => SlotsOf(a)' = SlotsOf(a) ]_vars

\* Both slots are filled, with different addresses, and the player of slot 0
\* has just said Hello again.
C37_Witness ==
    /\ BothFilled(players) /\ players[0] # players[1]
    /\ evt.who = Relay /\ evt.buf = Hello /\ players[0] = Some(evt.src)
    /\ Len(hellos) = 3

\* ------------------------------------------------------------------ C38
\* The slots whose input for the current tick is buffered.
BufferedSlots == { s \in Slots : tick_inputs[s] # None }

\* C38: between datagrams a slot has a buffered input only if it has a
\* registered address, and the buffer is never complete; the step that
\* completes it sends TickInputs whose payload for each slot is a payload that
\* was present (the sender's own for the sender's slot, the buffered one for
\* the other slot), and leaves the buffer empty.
C38_BufferNeverComplete ==
    /\ [](/\ \A s \in BufferedSlots : players[s] # None
          /\ BufferedSlots # Slots)
    /\ [][ \A i \in OutOfType(evt', "TickInputs") :
              /\ evt'.who = Relay /\ evt'.buf.type = "Input"
              /\ Relay \notin panicked'
              /\ BufferedSlots' = {}
              /\ \A s \in Slots :
                    IF players[s] = Some(evt'.src)
                    THEN evt'.out[i].buf.inputs[s + 1] = evt'.buf.payload
                    ELSE /\ s \in BufferedSlots
                         /\ evt'.out[i].buf.inputs[s + 1] = tick_inputs[s][1] ]_vars

\* After the broadcast of tick 0 the relay has just buffered slot 1's input
\* for tick 1, while slot 0's is still to come.
C38_Witness ==
    /\ current_tick = 1
    /\ evt.who = Relay /\ evt.buf.type = "Input" /\ evt.out = << >>
    /\ players[1] = Some(evt.src)
    /\ BufferedSlots = { 1 }
    /\ tick_inputs[1] = Some(evt.buf.payload)

\* ------------------------------------------------------------------ C39
\* C39: every TickInputs the relay sends has one payload per slot, which is
\* one per element of the client's array of movements; a client that applies
\* a TickInputs writes inside the array and does not panic, and no client
\* ever panics.
C39_TwoPayloads ==
    /\ [](panicked \cap Clients = {})
    /\ [][ /\ \A i \in OutOfType(evt', "TickInputs") :
                 /\ evt'.who = Relay
                 /\ Len(evt'.out[i].buf.inputs) = PLAYER_COUNT
                 /\ Len(evt'.out[i].buf.inputs) = Cardinality(Slots)
           /\ \A c \in Clients :
                 ( /\ evt'.who = c /\ evt'.kind = "recv"
                   /\ evt'.buf.type = "TickInputs"
                   /\ evt'.buf.tick = sim_tick[c] ) =>
                     /\ evt'.src = Relay
                     /\ ~ IndexOutOfBounds(evt'.buf.inputs)
                     /\ c \notin panicked'
                     /\ DOMAIN movement'[c] = 1 .. PLAYER_COUNT
                     /\ \A k \in 1 .. PLAYER_COUNT :
                           movement'[c][k] = deserialize_f32(evt'.buf.inputs[k])[1]
                     /\ tick_ready'[c] ]_vars

\* A client has just applied the relay's TickInputs of tick 1: both elements
\* of its array hold what the two payloads decode to.
C39_Witness ==
    \E c \in Clients :
        /\ evt.who = c /\ evt.kind = "recv" /\ evt.src = Relay
        /\ evt.buf.type = "TickInputs" /\ evt.buf.tick = 1
        /\ Len(evt.buf.inputs) = PLAYER_COUNT
        /\ sim_tick[c] = 1 /\ tick_ready[c]
        /\ \A k \in 1 .. PLAYER_COUNT :
              movement[c][k] = deserialize_f32(evt.buf.inputs[k])[1]
        /\ movement[c][1] # movement[c][2]
        /\ c \notin panicked

====
